---- MODULE Spec2Model ----
(***************************************************************************)
(* Token category classifier of token_analyzer_jp.py.                      *)
(*                                                                         *)
(* A character is its Unicode code point; a decoded token is a sequence of *)
(* code points.  One run of analyze_token_categories is a state machine:   *)
(* the tokenizer is loaded, every analyzed token id is decoded and         *)
(* classified (one loop iteration per step, in any order), and the result  *)
(* is aggregated.                                                          *)
(***************************************************************************)
EXTENDS Integers, Sequences, FiniteSets

\* ------------------------------------------------------------------ bounds

\* Largest vocabulary size of a modelled tokenizer.
MaxVocab == 2

\* ------------------------------------------------- character class registry

HIRAGANA == 12352..12447
KATAKANA == 12448..12543
KATAKANA_HW == 65381..65439
KANJI_COMMON == 19968..40959
KANJI_EXT_A == 13312..19903

JP_PUNCT ==
    {12289, 12290, 12300, 12301, 12302, 12303, 12304, 12305, 12539,
     65281, 65288, 65289, 65306, 65307, 65311, 65377, 65378, 65379, 65380}
JP_SYMBOLS_ETC == {12288, 12316, 12539, 65509}

JP_FULLWIDTH_ASCII_PRINTABLE == 65281..65374

ENGLISH_LOWER == 97..122
ENGLISH_UPPER == 65..90
ENGLISH_BASIC == ENGLISH_LOWER \cup ENGLISH_UPPER

\* str.isalnum() and str.isspace() of the Unicode database, on the blocks the
\* modelled characters come from (Basic Latin, Latin-1, CJK symbols, kana,
\* CJK ideographs, half-width and full-width forms).
AlnumCodePoints ==
    (48..57) \cup (65..90) \cup (97..122) \cup {170, 181}
    \cup (178..179) \cup (185..186) \cup (188..190)
    \cup (192..214) \cup (216..246) \cup (248..255)
    \cup (12293..12295) \cup (12321..12329) \cup (12337..12341)
    \cup (12344..12348) \cup (12353..12438) \cup (12445..12447)
    \cup (12449..12538) \cup (12540..12543)
    \cup (13312..19903) \cup (19968..40959)
    \cup (65296..65305) \cup (65313..65338) \cup (65345..65370)
    \cup (65382..65470)
SpaceCodePoints == (9..13) \cup (28..32) \cup {133, 160, 12288}

isalnum(c) == c \in AlnumCodePoints
isspace(c) == c \in SpaceCodePoints

\* ------------------------------------------------------ character predicates

is_japanese_related_char(char) ==
    \/ char \in HIRAGANA
    \/ char \in KATAKANA
    \/ char \in KATAKANA_HW
    \/ char \in KANJI_COMMON
    \/ char \in KANJI_EXT_A
    \/ char \in JP_PUNCT
    \/ char \in JP_SYMBOLS_ETC
    \/ char \in JP_FULLWIDTH_ASCII_PRINTABLE

is_pure_japanese_script_char(char) ==
    \/ char \in HIRAGANA
    \/ char \in KATAKANA
    \/ char \in KATAKANA_HW
    \/ char \in KANJI_COMMON
    \/ char \in KANJI_EXT_A

\* is_special_char_pattern without the test for the empty token.
is_special_char_pattern_no_empty_test(token) ==
    \A i \in 1..Len(token) :
        /\ ~isalnum(token[i])
        /\ ~isspace(token[i])
        /\ ~is_japanese_related_char(token[i])
        /\ token[i] \notin ENGLISH_BASIC

is_special_char_pattern(token) ==
    IF token = <<>>
    THEN FALSE
    ELSE \A i \in 1..Len(token) :
            /\ ~isalnum(token[i])
            /\ ~isspace(token[i])
            /\ ~is_japanese_related_char(token[i])
            /\ token[i] \notin ENGLISH_BASIC

\* --------------------------------------------------------------- the inputs

\* The characters decoded tokens are made of, one per combination of classes:
\* HIRAGANA (U+3042), KATAKANA (U+30A2), KATAKANA and JP_PUNCT and
\* JP_SYMBOLS_ETC (the middle dot U+30FB), KATAKANA_HW (U+FF76), KANJI_COMMON
\* (U+6F22), JP_PUNCT (U+3001), full-width digit (U+FF10), basic English (a),
\* ASCII digit (1), space, ASCII symbol (-), and a Latin-1 letter of no class
\* (U+00E9).
Chars ==
    {12354, 12450, 12539, 65398, 28450, 12289, 65296, 97, 49, 32, 45, 233}

\* What tokenizer.decode returns: the empty string, one character, or two
\* different characters (in code point order: the classification reads each
\* character whatever its position).
Texts ==
    {<<>>} \cup {<<c>> : c \in Chars}
    \cup {<<pair[1], pair[2]>> :
            pair \in {p \in Chars \X Chars : p[1] < p[2]}}

TokenIds == 0..(MaxVocab - 1)

\* ------------------------------------------------- per-token character scan

\* The flags as they are initialised before the characters are checked.
InitialFlags ==
    [has_hiragana |-> FALSE, has_katakana_full |-> FALSE,
     has_katakana_half |-> FALSE, has_kanji |-> FALSE,
     has_jp_punct_symbol |-> FALSE, has_fullwidth_ascii |-> FALSE,
     has_basic_english |-> FALSE, has_digit |-> FALSE,
     has_other_char |-> FALSE,
     all_pure_jp_script |-> TRUE, all_basic_english |-> TRUE,
     all_special_pattern |-> TRUE]

\* One iteration of the loop over the characters of the decoded token.

\* CheckChar that takes a full-width digit for a digit, as str.isdigit does.
CheckCharUnicodeDigit(flags, char) ==
    LET is_hira == char \in HIRAGANA
        is_kata_f == char \in KATAKANA
        is_kata_h == char \in KATAKANA_HW
        is_kanji == char \in KANJI_COMMON \/ char \in KANJI_EXT_A
        is_jp_ps == char \in JP_PUNCT \/ char \in JP_SYMBOLS_ETC
        is_fw_ascii == char \in JP_FULLWIDTH_ASCII_PRINTABLE
        is_basic_eng == char \in ENGLISH_BASIC
        is_digit == \/ 48 <= char /\ char <= 57
                    \/ 65296 <= char /\ char <= 65305
        is_space == isspace(char)
        is_pure_jp == is_hira \/ is_kata_f \/ is_kata_h \/ is_kanji
        is_jp_related == is_pure_jp \/ is_jp_ps \/ is_fw_ascii
    IN  [has_hiragana |-> flags.has_hiragana \/ is_hira,
         has_katakana_full |-> flags.has_katakana_full \/ is_kata_f,
         has_katakana_half |-> flags.has_katakana_half \/ is_kata_h,
         has_kanji |-> flags.has_kanji \/ is_kanji,
         has_jp_punct_symbol |-> flags.has_jp_punct_symbol \/ is_jp_ps,
         has_fullwidth_ascii |-> flags.has_fullwidth_ascii \/ is_fw_ascii,
         has_basic_english |-> flags.has_basic_english \/ is_basic_eng,
         has_digit |-> flags.has_digit \/ is_digit,
         has_other_char |->
            \/ flags.has_other_char
            \/ /\ ~(is_jp_related \/ is_basic_eng \/ is_digit \/ is_space
                    \/ isalnum(char))
               /\ ~is_special_char_pattern(<<char>>),
         all_pure_jp_script |-> flags.all_pure_jp_script /\ is_pure_jp,
         all_basic_english |-> flags.all_basic_english /\ is_basic_eng,
         all_special_pattern |->
            /\ flags.all_special_pattern
            /\ ~(isalnum(char) \/ is_space \/ is_jp_related \/ is_basic_eng)]

CheckChar(flags, char) ==
    LET is_hira == char \in HIRAGANA
        is_kata_f == char \in KATAKANA
        is_kata_h == char \in KATAKANA_HW
        is_kanji == char \in KANJI_COMMON \/ char \in KANJI_EXT_A
        is_jp_ps == char \in JP_PUNCT \/ char \in JP_SYMBOLS_ETC
        is_fw_ascii == char \in JP_FULLWIDTH_ASCII_PRINTABLE
        is_basic_eng == char \in ENGLISH_BASIC
        is_digit == 48 <= char /\ char <= 57
        is_space == isspace(char)
        is_pure_jp == is_hira \/ is_kata_f \/ is_kata_h \/ is_kanji
        is_jp_related == is_pure_jp \/ is_jp_ps \/ is_fw_ascii
    IN  [has_hiragana |-> flags.has_hiragana \/ is_hira,
         has_katakana_full |-> flags.has_katakana_full \/ is_kata_f,
         has_katakana_half |-> flags.has_katakana_half \/ is_kata_h,
         has_kanji |-> flags.has_kanji \/ is_kanji,
         has_jp_punct_symbol |-> flags.has_jp_punct_symbol \/ is_jp_ps,
         has_fullwidth_ascii |-> flags.has_fullwidth_ascii \/ is_fw_ascii,
         has_basic_english |-> flags.has_basic_english \/ is_basic_eng,
         has_digit |-> flags.has_digit \/ is_digit,
         has_other_char |->
            \/ flags.has_other_char
            \/ /\ ~(is_jp_related \/ is_basic_eng \/ is_digit \/ is_space
                    \/ isalnum(char))
               /\ ~is_special_char_pattern(<<char>>),
         all_pure_jp_script |-> flags.all_pure_jp_script /\ is_pure_jp,
         all_basic_english |-> flags.all_basic_english /\ is_basic_eng,
         all_special_pattern |->
            /\ flags.all_special_pattern
            /\ ~(isalnum(char) \/ is_space \/ is_jp_related \/ is_basic_eng)]

RECURSIVE CheckChars(_, _)
CheckChars(flags, chars) ==
    IF chars = <<>>
    THEN flags
    ELSE CheckChars(CheckChar(flags, Head(chars)), Tail(chars))

\* The flags of a decoded token after the loop over its characters.
TokenFlags(decoded_token) == CheckChars(InitialFlags, decoded_token)

\* is_related_to_jp without the half-width Katakana flag.
is_related_to_jp_no_half(flags) ==
    \/ flags.has_hiragana
    \/ flags.has_katakana_full
    \/ flags.has_kanji
    \/ flags.has_jp_punct_symbol
    \/ flags.has_fullwidth_ascii

is_related_to_jp(flags) ==
    \/ flags.has_hiragana
    \/ flags.has_katakana_full
    \/ flags.has_katakana_half
    \/ flags.has_kanji
    \/ flags.has_jp_punct_symbol
    \/ flags.has_fullwidth_ascii

\* ------------------------------------------------------ category assignment

\* The keys of the categories dictionary as it is created.
CategoryKeys ==
    {"contains_japanese", "pure_japanese_script", "pure_english",
     "contains_hiragana", "contains_katakana_full", "contains_katakana_half",
     "contains_kanji", "contains_jp_punct_symbol", "contains_fullwidth_ascii",
     "contains_basic_english", "contains_digit", "special_char_pattern",
     "uncategorized"}

EmptyCategories == [name \in CategoryKeys |-> {}]

\* <<key>> when the branch that adds to categories[key] is taken.
When(cond, key) == IF cond THEN <<key>> ELSE <<>>

\* JapaneseKeys with contains_japanese added after the facets instead of
\* before them.
JapaneseKeysLast(flags) ==
    IF is_related_to_jp(flags)
    THEN When(flags.has_hiragana, "contains_hiragana")
         \o When(flags.has_katakana_full, "contains_katakana_full")
         \o When(flags.has_katakana_half, "contains_halfwidth_katakana")
         \o When(flags.has_kanji, "contains_kanji")
         \o When(flags.has_jp_punct_symbol, "contains_jp_punct_symbol")
         \o When(flags.has_fullwidth_ascii, "contains_fullwidth_ascii")
         \o When(/\ flags.all_pure_jp_script
                 /\ \/ flags.has_hiragana
                    \/ flags.has_katakana_full
                    \/ flags.has_katakana_half
                    \/ flags.has_kanji,
                 "pure_japanese_script")
         \o <<"contains_japanese">>
    ELSE <<>>

\* The keys the Japanese block adds the token id to, in program order.  The
\* half-width Katakana branch indexes categories by
\* "contains_halfwidth_katakana".
JapaneseKeys(flags) ==
    IF is_related_to_jp(flags)
    THEN <<"contains_japanese">>
         \o When(flags.has_hiragana, "contains_hiragana")
         \o When(flags.has_katakana_full, "contains_katakana_full")
         \o When(flags.has_katakana_half, "contains_halfwidth_katakana")
         \o When(flags.has_kanji, "contains_kanji")
         \o When(flags.has_jp_punct_symbol, "contains_jp_punct_symbol")
         \o When(flags.has_fullwidth_ascii, "contains_fullwidth_ascii")
         \o When(/\ flags.all_pure_jp_script
                 /\ \/ flags.has_hiragana
                    \/ flags.has_katakana_full
                    \/ flags.has_katakana_half
                    \/ flags.has_kanji,
                 "pure_japanese_script")
    ELSE <<>>

\* EnglishKeys without the purity test.
EnglishKeysNoPurity(flags) ==
    IF flags.has_basic_english
    THEN <<"contains_basic_english", "pure_english">>
    ELSE <<>>

EnglishKeys(flags) ==
    IF flags.has_basic_english
    THEN <<"contains_basic_english">>
         \o When(flags.all_basic_english /\ ~is_related_to_jp(flags),
                 "pure_english")
    ELSE <<>>

DigitKeys(flags) == When(flags.has_digit, "contains_digit")

\* SpecialKeys with the three guards only, without is_special_char_pattern.
SpecialKeysGuardsOnly(flags, decoded_token) ==
    When(/\ ~is_related_to_jp(flags)
         /\ ~flags.has_basic_english
         /\ ~flags.has_digit,
         "special_char_pattern")

SpecialKeys(flags, decoded_token) ==
    When(/\ ~is_related_to_jp(flags)
         /\ ~flags.has_basic_english
         /\ ~flags.has_digit
         /\ is_special_char_pattern(decoded_token),
         "special_char_pattern")

\* Every categories[key].add(token_id) the loop body attempts for a token, in
\* program order.
AssignedKeys(decoded_token) ==
    LET flags == TokenFlags(decoded_token)
    IN  JapaneseKeys(flags) \o EnglishKeys(flags) \o DigitKeys(flags)
        \o SpecialKeys(flags, decoded_token)

\* AddAll on a dictionary that creates the set of a key it does not have.
RECURSIVE AddAllDefault(_, _, _)
AddAllDefault(cats, keys, token_id) ==
    IF keys = <<>>
    THEN [categories |-> cats, raised |-> FALSE]
    ELSE AddAllDefault(
            [name \in DOMAIN cats \cup {Head(keys)} |->
                IF name = Head(keys)
                THEN (IF name \in DOMAIN cats THEN cats[name] ELSE {})
                     \cup {token_id}
                ELSE cats[name]],
            Tail(keys), token_id)


\* AddAll that adds the id only to the sets that are still empty.
RECURSIVE AddAllOnce(_, _, _)
AddAllOnce(cats, keys, token_id) ==
    IF keys = <<>>
    THEN [categories |-> cats, raised |-> FALSE]
    ELSE IF Head(keys) \notin DOMAIN cats
         THEN [categories |-> cats, raised |-> TRUE]
         ELSE AddAllOnce(
                [cats EXCEPT ![Head(keys)] =
                    IF @ = {} THEN {token_id} ELSE @],
                Tail(keys), token_id)

\* categories[key].add(token_id) for each key in turn.  Indexing the
\* dictionary by a key it does not have raises KeyError: the adds made before
\* it stay, the later ones are not made.
RECURSIVE AddAll(_, _, _)
AddAll(cats, keys, token_id) ==
    IF keys = <<>>
    THEN [categories |-> cats, raised |-> FALSE]
    ELSE IF Head(keys) \notin DOMAIN cats
         THEN [categories |-> cats, raised |-> TRUE]
         ELSE AddAll([cats EXCEPT ![Head(keys)] = @ \cup {token_id}],
                     Tail(keys), token_id)
\* ------------------------------------------------------------ aggregation

\* sorted(list(ids)): the ids in ascending order.
RECURSIVE sorted(_)
sorted(ids) ==
    IF ids = {}
    THEN <<>>
    ELSE LET least == CHOOSE x \in ids : \A y \in ids : x <= y
         IN  <<least>> \o sorted(ids \ {least})


\* AnalyzedTokenIds that keeps the special ids.
AnalyzedTokenIdsWithSpecial(size, min_id, special) ==
    {token_id \in 0..(size - 1) :
        /\ min_id <= token_id
        /\ token_id <= size - 1}

\* The token ids to analyze: in the requested range and not special.
AnalyzedTokenIds(size, min_id, special) ==
    {token_id \in 0..(size - 1) :
        /\ min_id <= token_id
        /\ token_id <= size - 1
        /\ token_id \notin special}

\* The union of every bucket but "uncategorized".
AllCategorizedIds(cats) ==
    UNION {cats[name] : name \in DOMAIN cats \ {"uncategorized"}}

\* FinalCategories that subtracts only the three exclusive groups, leaving
\* contains_digit out.
FinalCategoriesNoDigit(cats, analyzed) ==
    [cats EXCEPT !["uncategorized"] =
        analyzed \ (cats["contains_japanese"]
                    \cup cats["contains_basic_english"]
                    \cup cats["special_char_pattern"])]

\* The categories after the final computation of "uncategorized".
FinalCategories(cats, analyzed) ==
    [cats EXCEPT !["uncategorized"] = analyzed \ AllCategorizedIds(cats)]

Statistics(cats) == [name \in DOMAIN cats |-> Cardinality(cats[name])]

TokenIdLists(cats) == [name \in DOMAIN cats |-> sorted(cats[name])]

\* AnalysisDetails that leaves the failed tokens out of num_tokens_analyzed.
AnalysisDetailsLessErrors(size, min_id, special, analyzed_count, errors) ==
    [min_token_id_analyzed |-> min_id,
     max_token_id_analyzed |-> size - 1,
     num_tokens_analyzed |-> analyzed_count - errors,
     num_errors |-> errors,
     excluded_special_ids |-> sorted(special)]

AnalysisDetails(size, min_id, special, analyzed_count, errors) ==
    [min_token_id_analyzed |-> min_id,
     max_token_id_analyzed |-> size - 1,
     num_tokens_analyzed |-> analyzed_count,
     num_errors |-> errors,
     excluded_special_ids |-> sorted(special)]

\* The dictionary returned when no token is analyzed.
EmptyResult(size, min_id, special) ==
    [vocab_size |-> size,
     num_special_tokens |-> Cardinality(special),
     analysis_details |-> AnalysisDetails(size, min_id, special, 0, 0),
     statistics |-> [name \in CategoryKeys |-> 0],
     token_ids |-> [name \in CategoryKeys |-> <<>>]]

\* AnalysisResult with the statistics taken before "uncategorized" is
\* computed.
AnalysisResultEarlyStatistics(size, min_id, special, analyzed, cats, errors) ==
    LET final == FinalCategories(cats, analyzed)
    IN  [vocab_size |-> size,
         num_special_tokens |-> Cardinality(special),
         analysis_details |->
            AnalysisDetails(size, min_id, special, Cardinality(analyzed),
                            errors),
         statistics |-> Statistics(cats),
         token_ids |-> TokenIdLists(final)]

\* The dictionary returned after the loop.
AnalysisResult(size, min_id, special, analyzed, cats, errors) ==
    LET final == FinalCategories(cats, analyzed)
    IN  [vocab_size |-> size,
         num_special_tokens |-> Cardinality(special),
         analysis_details |->
            AnalysisDetails(size, min_id, special, Cardinality(analyzed),
                            errors),
         statistics |-> Statistics(final),
         token_ids |-> TokenIdLists(final)]

\* ------------------------------------------- reference rules of the test suite

UtilInitialFlags ==
    [has_hiragana |-> FALSE, has_katakana_full |-> FALSE,
     has_katakana_half |-> FALSE, has_kanji |-> FALSE,
     has_jp_punct_symbol |-> FALSE, has_fullwidth_ascii |-> FALSE,
     has_basic_english |-> FALSE, has_digit |-> FALSE,
     has_other_char |-> FALSE,
     all_pure_jp_script |-> TRUE, all_basic_english |-> TRUE,
     is_related_to_jp |-> FALSE]

UtilCheckChar(flags, char) ==
    LET is_hira == char \in HIRAGANA
        is_kata_f == char \in KATAKANA
        is_kata_h == char \in KATAKANA_HW
        is_kanji == char \in KANJI_COMMON \/ char \in KANJI_EXT_A
        is_jp_ps == char \in JP_PUNCT \/ char \in JP_SYMBOLS_ETC
        is_fw_ascii == char \in JP_FULLWIDTH_ASCII_PRINTABLE
        is_basic_eng == char \in ENGLISH_BASIC
        is_digit_char == 48 <= char /\ char <= 57
        is_space == isspace(char)
        is_pure_jp == is_hira \/ is_kata_f \/ is_kata_h \/ is_kanji
        is_jp_related_char_flag == is_pure_jp \/ is_jp_ps \/ is_fw_ascii
        is_potentially_special ==
            ~(isalnum(char) \/ is_space \/ is_jp_related_char_flag
              \/ is_basic_eng \/ is_digit_char)
    IN  [has_hiragana |-> flags.has_hiragana \/ is_hira,
         has_katakana_full |-> flags.has_katakana_full \/ is_kata_f,
         has_katakana_half |-> flags.has_katakana_half \/ is_kata_h,
         has_kanji |-> flags.has_kanji \/ is_kanji,
         has_jp_punct_symbol |-> flags.has_jp_punct_symbol \/ is_jp_ps,
         has_fullwidth_ascii |-> flags.has_fullwidth_ascii \/ is_fw_ascii,
         has_basic_english |-> flags.has_basic_english \/ is_basic_eng,
         has_digit |-> flags.has_digit \/ is_digit_char,
         has_other_char |->
            \/ flags.has_other_char
            \/ is_potentially_special /\ ~is_special_char_pattern(<<char>>),
         all_pure_jp_script |-> flags.all_pure_jp_script /\ is_pure_jp,
         all_basic_english |-> flags.all_basic_english /\ is_basic_eng,
         is_related_to_jp |-> flags.is_related_to_jp \/ is_jp_related_char_flag]

RECURSIVE UtilCheckChars(_, _)
UtilCheckChars(flags, chars) ==
    IF chars = <<>>
    THEN flags
    ELSE UtilCheckChars(UtilCheckChar(flags, Head(chars)), Tail(chars))

calculate_token_flags_util(decoded_token) ==
    UtilCheckChars(UtilInitialFlags, decoded_token)

\* {name} when the branch that adds name to expected_cats is taken.
Expect(cond, name) == IF cond THEN {name} ELSE {}

calculate_expected_categories_util(decoded_token) ==
    IF decoded_token = <<>>
    THEN {}
    ELSE LET flags == calculate_token_flags_util(decoded_token)
             is_sp_pattern == is_special_char_pattern(decoded_token)
         IN  Expect(flags.is_related_to_jp, "contains_japanese")
             \cup Expect(flags.has_hiragana, "contains_hiragana")
             \cup Expect(flags.has_katakana_full, "contains_katakana_full")
             \cup Expect(flags.has_katakana_half, "contains_katakana_half")
             \cup Expect(flags.has_kanji, "contains_kanji")
             \cup Expect(flags.has_jp_punct_symbol, "contains_jp_punct_symbol")
             \cup Expect(flags.has_fullwidth_ascii, "contains_fullwidth_ascii")
             \cup Expect(/\ flags.all_pure_jp_script
                         /\ \/ flags.has_hiragana
                            \/ flags.has_katakana_full
                            \/ flags.has_katakana_half
                            \/ flags.has_kanji,
                         "pure_japanese_script")
             \cup Expect(flags.has_basic_english, "contains_basic_english")
             \cup Expect(flags.all_basic_english /\ ~flags.is_related_to_jp,
                         "pure_english")
             \cup Expect(flags.has_digit, "contains_digit")
             \cup Expect(/\ ~flags.is_related_to_jp
                         /\ ~flags.has_basic_english
                         /\ ~flags.has_digit
                         /\ is_sp_pattern,
                         "special_char_pattern")
             \cup Expect(/\ ~flags.is_related_to_jp
                         /\ ~flags.has_basic_english
                         /\ ~flags.has_digit
                         /\ ~is_sp_pattern,
                         "uncategorized")

\* ------------------------------------------------------------------- state

\* The per-token warnings are logged for the first 20 errors only.
LogCap == 20

VARIABLES
    pc,                 \* where the run of analyze_token_categories is
    vocab_size,         \* tokenizer.vocab_size
    special_ids,        \* the special token ids collected from the tokenizer
    min_token_id,       \* the min_token_id argument
    analyzed_token_ids, \* the set of token ids to analyze
    pending,            \* the analyzed ids the loop has not reached yet
    decoded,            \* what tokenizer.decode gave for each id so far
    decoded_token,      \* whether the local variable decoded_token is bound
    categories,         \* the categories dictionary
    error_count,        \* the local variable error_count
    warnings,           \* number of per-token warnings logged
    result,             \* the value returned
    totals_logged,      \* the totals of the final warning, as logged
    load_ok,            \* whether AutoTokenizer.from_pretrained succeeds
    outputs,            \* what run_full_analysis has written or printed
    helper,             \* a direct call of is_special_char_pattern
    lazy_annotations,   \* whether the interpreter evaluates annotations lazily
    modules,            \* how far the import of each script has come
    file,               \* a token-list file: its writing and its reading
    api,                \* a run of openai_call_jp.main
    gen,                \* a run of adjust_japanese_bias.main
    processor           \* a TokenBiasLogitsProcessor and the scores it is given

vars ==
    <<pc, vocab_size, special_ids, min_token_id, analyzed_token_ids, pending,
      decoded, decoded_token, categories, error_count, warnings, result,
      totals_logged, load_ok, outputs, helper, lazy_annotations, modules,
      file, api, gen, processor>>

\* The state of the scripts that read the token lists.
script_vars == <<lazy_annotations, modules, file, api, gen, processor>>

\* The variables analyze_token_categories does not touch.
other_vars == <<load_ok, outputs, helper, script_vars>>

\* The scripts that read the token lists.
ScriptNames == {"adjust_japanese_bias", "openai_call_jp"}

\* No token-list file is being written or read.
IdleFile == [pc |-> "idle", category_name |-> <<>>, token_ids |-> <<>>,
             exists |-> FALSE, content |-> <<>>, loaded |-> <<>>]

\* Neither main is run.
IdleMain == [pc |-> "idle"]

\* No processor is built.
IdleProcessor == [pc |-> "idle"]

\* No script is run.
ScriptsIdle ==
    /\ lazy_annotations = FALSE
    /\ modules = [name \in ScriptNames |-> "import"]
    /\ file = IdleFile
    /\ api = IdleMain
    /\ gen = IdleMain
    /\ processor = IdleProcessor

\* No call of is_special_char_pattern under way.
IdleHelper == [token |-> <<>>, called |-> FALSE, value |-> FALSE]

NotDecoded == [status |-> "pending", text |-> <<>>]
NoResult == [vocab_size |-> 0,
             num_special_tokens |-> 0,
             analysis_details |-> AnalysisDetails(0, 0, {}, 0, 0),
             statistics |-> [name \in {} |-> 0],
             token_ids |-> [name \in {} |-> <<>>]]

Init ==
    /\ pc = "start"
    /\ vocab_size \in 0..MaxVocab
    /\ special_ids \in SUBSET TokenIds
    /\ min_token_id \in 0..MaxVocab
    /\ analyzed_token_ids = {}
    /\ pending = {}
    /\ decoded = [token_id \in TokenIds |-> NotDecoded]
    /\ decoded_token = FALSE
    /\ categories = EmptyCategories
    /\ error_count = 0
    /\ warnings = 0
    /\ result = NoResult
    /\ totals_logged = <<>>
    /\ load_ok \in BOOLEAN
    /\ outputs = {}
    /\ helper = IdleHelper
    /\ ScriptsIdle

\* AutoTokenizer.from_pretrained raises: the function returns None.
LoadFails ==
    /\ pc = "start"
    /\ ~load_ok
    /\ pc' = "load_failed"
    /\ UNCHANGED <<vocab_size, special_ids, min_token_id, analyzed_token_ids,
                   pending, decoded, decoded_token, categories, error_count,
                   warnings, result>>
    /\ UNCHANGED <<totals_logged, other_vars>>

\* The tokenizer loads; the categories and the analyzed ids are prepared.
\* With nothing to analyze the empty result is returned at once.
LoadTokenizer ==
    /\ pc = "start"
    /\ load_ok
    /\ LET analyzed == AnalyzedTokenIds(vocab_size, min_token_id, special_ids)
       IN  /\ analyzed_token_ids' = analyzed
           /\ categories' = EmptyCategories
           /\ IF Cardinality(analyzed) = 0
              THEN /\ pc' = "done"
                   /\ result' = EmptyResult(vocab_size, min_token_id,
                                            special_ids)
                   /\ pending' = {}
              ELSE /\ pc' = "loop"
                   /\ result' = result
                   /\ pending' = analyzed
    /\ UNCHANGED <<vocab_size, special_ids, min_token_id, decoded,
                   decoded_token, error_count, warnings>>
    /\ UNCHANGED <<totals_logged, other_vars>>

\* The except clause of the loop body: count the error and, for the first
\* LogCap errors, log a warning that formats decoded_token[:20].  When
\* decoded_token was never assigned that read raises out of the handler and
\* out of the function.
\* HandleError that logs the warning without counting the error.
HandleErrorUncounted(token_bound) ==
    /\ error_count' = error_count
    /\ IF error_count + 1 <= LogCap
       THEN IF token_bound
            THEN /\ warnings' = warnings + 1
                 /\ pc' = pc
            ELSE /\ warnings' = warnings
                 /\ pc' = "raised"
       ELSE /\ warnings' = warnings
            /\ pc' = pc

HandleError(token_bound) ==
    /\ error_count' = error_count + 1
    /\ IF error_count + 1 <= LogCap
       THEN IF token_bound
            THEN /\ warnings' = warnings + 1
                 /\ pc' = pc
            ELSE /\ warnings' = warnings
                 /\ pc' = "raised"
       ELSE /\ warnings' = warnings
            /\ pc' = pc

\* One iteration of the loop over analyzed_token_ids in which
\* tokenizer.decode raises.
DecodeRaises(token_id) ==
    /\ pc = "loop"
    /\ token_id \in pending
    /\ pending' = pending \ {token_id}
    /\ decoded' = [decoded EXCEPT ![token_id] =
                      [status |-> "error", text |-> <<>>]]
    /\ HandleError(decoded_token)
    /\ UNCHANGED <<vocab_size, special_ids, min_token_id, analyzed_token_ids,
                   decoded_token, categories, result>>
    /\ UNCHANGED <<totals_logged, other_vars>>

\* One iteration of the loop in which tokenizer.decode returns text: an empty
\* string is skipped, any other is classified and the token id added to the
\* categories; an exception on the way goes to the except clause.
\* ClassifyToken in which an empty decoded string goes to the except clause.
ClassifyTokenEmptyError(token_id, text) ==
    /\ pc = "loop"
    /\ token_id \in pending
    /\ pending' = pending \ {token_id}
    /\ decoded' = [decoded EXCEPT ![token_id] =
                      [status |-> "ok", text |-> text]]
    /\ decoded_token' = TRUE
    /\ IF text = <<>>
       THEN /\ categories' = categories
            /\ HandleError(decoded_token')
       ELSE LET added == AddAll(categories, AssignedKeys(text), token_id)
            IN  /\ categories' = added.categories
                /\ IF added.raised
                   THEN HandleError(decoded_token')
                   ELSE UNCHANGED <<pc, error_count, warnings>>
    /\ UNCHANGED <<vocab_size, special_ids, min_token_id, analyzed_token_ids,
                   result>>
    /\ UNCHANGED <<totals_logged, other_vars>>

ClassifyToken(token_id, text) ==
    /\ pc = "loop"
    /\ token_id \in pending
    /\ pending' = pending \ {token_id}
    /\ decoded' = [decoded EXCEPT ![token_id] =
                      [status |-> "ok", text |-> text]]
    /\ decoded_token' = TRUE
    /\ IF text = <<>>
       THEN UNCHANGED <<pc, categories, error_count, warnings>>
       ELSE LET added == AddAll(categories, AssignedKeys(text), token_id)
            IN  /\ categories' = added.categories
                /\ IF added.raised
                   THEN HandleError(decoded_token')
                   ELSE UNCHANGED <<pc, error_count, warnings>>
    /\ UNCHANGED <<vocab_size, special_ids, min_token_id, analyzed_token_ids,
                   result>>
    /\ UNCHANGED <<totals_logged, other_vars>>

\* After the loop: "uncategorized" is computed and the result returned.
Aggregate ==
    /\ pc = "loop"
    /\ pending = {}
    /\ pc' = "done"
    /\ totals_logged' = IF error_count > 0 THEN <<error_count>> ELSE <<>>
    /\ categories' = FinalCategories(categories, analyzed_token_ids)
    /\ result' = AnalysisResult(vocab_size, min_token_id, special_ids,
                                analyzed_token_ids, categories, error_count)
    /\ UNCHANGED <<vocab_size, special_ids, min_token_id, analyzed_token_ids,
                   pending, decoded, decoded_token, error_count, warnings>>
    /\ UNCHANGED other_vars

Next ==
    \/ LoadFails
    \/ LoadTokenizer
    \/ \E token_id \in TokenIds : DecodeRaises(token_id)
    \/ \E token_id \in TokenIds, text \in Texts : ClassifyToken(token_id, text)
    \/ Aggregate

Spec == Init /\ [][Next]_vars

\* ------------------------------------------------------- run_full_analysis

\* The categories whose id lists run_full_analysis saves as text files.
categories_to_save ==
    {"contains_japanese", "pure_japanese_script",
     "contains_halfwidth_katakana", "contains_fullwidth_ascii", "pure_english",
     "special_char_pattern", "uncategorized"}

\* The token-list files written: save_token_list skips an empty list, and
\* token_ids.get gives the empty list for a key the result does not have.
SavedTokenLists(token_ids) ==
    {name \in categories_to_save :
        name \in DOMAIN token_ids /\ token_ids[name] # <<>>}

\* analyze_token_categories returned a result: the JSON file and the token
\* lists are saved, the summary and the examples are printed.
SaveAndReport ==
    /\ pc = "done"
    /\ pc' = "saved"
    /\ outputs' = {"json", "summary", "examples"}
                  \cup SavedTokenLists(result.token_ids)
    /\ UNCHANGED <<vocab_size, special_ids, min_token_id, analyzed_token_ids,
                   pending, decoded, decoded_token, categories, error_count,
                   warnings, result, totals_logged, load_ok, helper,
                   script_vars>>

\* ReportFailure that prints the summary all the same.
ReportFailurePrintsSummary ==
    /\ pc = "load_failed"
    /\ pc' = "not_completed"
    /\ outputs' = {"summary"}
    /\ UNCHANGED <<vocab_size, special_ids, min_token_id, analyzed_token_ids,
                   pending, decoded, decoded_token, categories, error_count,
                   warnings, result, totals_logged, load_ok, helper,
                   script_vars>>

\* analyze_token_categories returned None: only an error is logged.
ReportFailure ==
    /\ pc = "load_failed"
    /\ pc' = "not_completed"
    /\ UNCHANGED <<vocab_size, special_ids, min_token_id, analyzed_token_ids,
                   pending, decoded, decoded_token, categories, error_count,
                   warnings, result, totals_logged, load_ok, outputs, helper,
                   script_vars>>

RunNext ==
    \/ Next
    \/ SaveAndReport
    \/ ReportFailure

RunSpec == Init /\ [][RunNext]_vars

\* ------------------------------------- direct calls of is_special_char_pattern

\* Longest token passed to a direct call of is_special_char_pattern.
MaxTokenLen == 2

HelperTokens == UNION {[1..n -> Chars] : n \in 0..MaxTokenLen}

HelperInit ==
    /\ pc = "helper"
    /\ vocab_size = 0
    /\ special_ids = {}
    /\ min_token_id = 0
    /\ analyzed_token_ids = {}
    /\ pending = {}
    /\ decoded = [token_id \in TokenIds |-> NotDecoded]
    /\ decoded_token = FALSE
    /\ categories = EmptyCategories
    /\ error_count = 0
    /\ warnings = 0
    /\ result = NoResult
    /\ totals_logged = <<>>
    /\ load_ok = TRUE
    /\ outputs = {}
    /\ helper \in {[token |-> token, called |-> FALSE, value |-> FALSE] :
                      token \in HelperTokens}
    /\ ScriptsIdle

\* is_special_char_pattern(token) is called and returns.
CallIsSpecialCharPattern ==
    /\ pc = "helper"
    /\ ~helper.called
    /\ helper' = [helper EXCEPT !.called = TRUE,
                                !.value = is_special_char_pattern(helper.token)]
    /\ UNCHANGED <<pc, vocab_size, special_ids, min_token_id,
                   analyzed_token_ids, pending, decoded, decoded_token,
                   categories, error_count, warnings, result,
                   totals_logged, load_ok, outputs, script_vars>>

HelperNext == CallIsSpecialCharPattern

HelperSpec == HelperInit /\ [][HelperNext]_vars


\* ------------------------------------------- the loop's error accounting

\* Most token ids of a run of which only the error accounting is followed.
MaxLogTokens == 22

\* The loop is entered with the tokenizer loaded and nothing excluded.
LogInit ==
    /\ pc = "loop"
    /\ vocab_size \in 1..MaxLogTokens
    /\ special_ids = {}
    /\ min_token_id = 0
    /\ analyzed_token_ids = AnalyzedTokenIds(vocab_size, 0, {})
    /\ pending = analyzed_token_ids
    /\ decoded = [token_id \in TokenIds |-> NotDecoded]
    /\ decoded_token = FALSE
    /\ categories = EmptyCategories
    /\ error_count = 0
    /\ warnings = 0
    /\ result = NoResult
    /\ totals_logged = <<>>
    /\ load_ok = TRUE
    /\ outputs = {}
    /\ helper = IdleHelper
    /\ ScriptsIdle

\* The id the loop takes next.  The ids differ in nothing the error
\* accounting reads, so the least pending one stands for any of them.
NextPending == CHOOSE token_id \in pending : \A other \in pending :
                                                token_id <= other

\* One iteration of the loop that ends in the except clause: tokenizer.decode
\* raised (in_decode), or an add raised after decode had returned.  What the
\* token decoded to and the sets of the dictionary are not followed.
TokenFails(in_decode) ==
    /\ pc = "loop"
    /\ pending # {}
    /\ pending' = pending \ {NextPending}
    /\ decoded_token' = (decoded_token \/ ~in_decode)
    /\ HandleError(decoded_token')
    /\ UNCHANGED <<vocab_size, special_ids, min_token_id, analyzed_token_ids,
                   decoded, categories, result>>
    /\ UNCHANGED <<totals_logged, other_vars>>

\* One iteration of the loop that raises nothing.
TokenPasses ==
    /\ pc = "loop"
    /\ pending # {}
    /\ pending' = pending \ {NextPending}
    /\ decoded_token' = TRUE
    /\ UNCHANGED <<pc, vocab_size, special_ids, min_token_id,
                   analyzed_token_ids, decoded, categories, error_count,
                   warnings, result>>
    /\ UNCHANGED <<totals_logged, other_vars>>

LogNext ==
    \/ \E in_decode \in BOOLEAN : TokenFails(in_decode)
    \/ TokenPasses
    \/ Aggregate

LogSpec == LogInit /\ [][LogNext]_vars


\* ------------------------------------------------- the token-list files

\* The variables of analyze_token_categories, run_full_analysis and the
\* direct calls of the helper: the scripts below leave them alone.
analyzer_vars ==
    <<pc, vocab_size, special_ids, min_token_id, analyzed_token_ids, pending,
      decoded, decoded_token, categories, error_count, warnings, result,
      totals_logged, load_ok, outputs, helper>>

\* No analysis is run.
AnalyzerIdle ==
    /\ pc = "idle"
    /\ vocab_size = 0
    /\ special_ids = {}
    /\ min_token_id = 0
    /\ analyzed_token_ids = {}
    /\ pending = {}
    /\ decoded = [token_id \in TokenIds |-> NotDecoded]
    /\ decoded_token = FALSE
    /\ categories = EmptyCategories
    /\ error_count = 0
    /\ warnings = 0
    /\ result = NoResult
    /\ totals_logged = <<>>
    /\ load_ok = TRUE
    /\ outputs = {}
    /\ helper = IdleHelper

\* A string is the sequence of its characters.
DecimalDigits == <<"0", "1", "2", "3", "4", "5", "6", "7", "8", "9">>

\* str(n) of an integer: its decimal digits, after "-" when it is negative.
RECURSIVE str(_)
str(n) ==
    IF n < 0
    THEN <<"-">> \o str(0 - n)
    ELSE IF n < 10
         THEN <<DecimalDigits[n + 1]>>
         ELSE str(n \div 10) \o <<DecimalDigits[(n % 10) + 1]>>

\* sep.join(items)
RECURSIVE join(_, _)
join(sep, items) ==
    IF items = <<>>
    THEN <<>>
    ELSE IF Len(items) = 1
         THEN items[1]
         ELSE items[1] \o sep \o join(sep, Tail(items))

\* save_token_list that writes the ids with nothing between them.
save_token_list_unseparated(token_ids, category_name) ==
    IF token_ids = <<>>
    THEN [exists |-> FALSE, content |-> <<>>]
    ELSE [exists |-> TRUE,
          content |->
            category_name \o <<"_", "i", "d", "s", " ", "=", " ", "[">>
            \o join(<<>>, [i \in DOMAIN token_ids |-> str(token_ids[i])])
            \o <<"]", "\n">>]

\* save_token_list: nothing is written for an empty list; otherwise the file
\* holds "<category_name>_ids = [id1,id2,...]" and a newline.
save_token_list(token_ids, category_name) ==
    IF token_ids = <<>>
    THEN [exists |-> FALSE, content |-> <<>>]
    ELSE [exists |-> TRUE,
          content |->
            category_name \o <<"_", "i", "d", "s", " ", "=", " ", "[">>
            \o join(<<",">>, [i \in DOMAIN token_ids |-> str(token_ids[i])])
            \o <<"]", "\n">>]

\* re.search(r"\[(.*?)\]", content): the leftmost "[" that has a "]" after
\* it on the same line, and the characters up to the first such "]".
search_brackets(content) ==
    LET starts ==
            {i \in DOMAIN content :
                /\ content[i] = "["
                /\ \E j \in (i + 1)..Len(content) :
                      /\ content[j] = "]"
                      /\ \A k \in (i + 1)..(j - 1) : content[k] # "\n"}
    IN  IF starts = {}
        THEN [match |-> FALSE, group |-> <<>>]
        ELSE LET i == CHOOSE x \in starts : \A y \in starts : x <= y
                 ends == {j \in (i + 1)..Len(content) : content[j] = "]"}
                 j == CHOOSE x \in ends : \A y \in ends : x <= y
             IN  [match |-> TRUE, group |-> SubSeq(content, i + 1, j - 1)]

\* text.split(",")
RECURSIVE split(_)
split(text) ==
    LET commas == {i \in DOMAIN text : text[i] = ","}
    IN  IF commas = {}
        THEN <<text>>
        ELSE LET i == CHOOSE x \in commas : \A y \in commas : x <= y
             IN  <<SubSeq(text, 1, i - 1)>>
                 \o split(SubSeq(text, i + 1, Len(text)))

Whitespace == {" ", "\t", "\n", "\r", "\f"}

\* text.strip()
RECURSIVE strip(_)
strip(text) ==
    IF text = <<>>
    THEN text
    ELSE IF text[1] \in Whitespace
         THEN strip(Tail(text))
         ELSE IF text[Len(text)] \in Whitespace
              THEN strip(SubSeq(text, 1, Len(text) - 1))
              ELSE text

\* The number a string of decimal digits writes.
RECURSIVE digits_value(_)
digits_value(text) ==
    IF text = <<>>
    THEN 0
    ELSE LET last == text[Len(text)]
             d == CHOOSE n \in 0..9 : DecimalDigits[n + 1] = last
         IN  10 * digits_value(SubSeq(text, 1, Len(text) - 1)) + d

IsDigits(text) ==
    /\ text # <<>>
    /\ \A i \in DOMAIN text : \E n \in 1..10 : DecimalDigits[n] = text[i]

\* int(text): whitespace around is dropped, a sign may lead, the rest is
\* decimal digits; anything else raises ValueError.
int(text) ==
    LET stripped == strip(text)
        signed == stripped # <<>> /\ stripped[1] \in {"+", "-"}
        digits == IF signed THEN Tail(stripped) ELSE stripped
    IN  IF IsDigits(digits)
        THEN [raised |-> FALSE,
              value |-> IF signed /\ stripped[1] = "-"
                        THEN 0 - digits_value(digits)
                        ELSE digits_value(digits)]
        ELSE [raised |-> TRUE, value |-> 0]

\* load_japanese_token_ids_from_txt (the same function in both scripts): the
\* ids between the first brackets of the file; the empty list when the file
\* is missing, has no brackets or has an item int() does not take.
load_japanese_token_ids_from_txt(exists, content) ==
    IF ~exists
    THEN <<>>
    ELSE LET found == search_brackets(content)
             id_strs == SelectSeq(split(found.group),
                                  LAMBDA id_str : strip(id_str) # <<>>)
         IN  IF ~found.match
             THEN <<>>
             ELSE IF \E i \in DOMAIN id_strs : int(id_strs[i]).raised
                  THEN <<>>
                  ELSE [i \in DOMAIN id_strs |-> int(id_strs[i]).value]


\* The import of a script: the module body is run from the top.  Neither
\* script imports List or Dict, which the annotations of its definitions
\* name: an interpreter that evaluates annotations at the definition raises
\* NameError there, one that evaluates them lazily loads the module.
ImportModule(name) ==
    /\ modules[name] = "import"
    /\ modules' = [modules EXCEPT ![name] =
                      IF lazy_annotations THEN "loaded" ELSE "name_error"]
    /\ UNCHANGED <<lazy_annotations, file, api, gen, processor>>
    /\ UNCHANGED analyzer_vars

\* The category names the token lists are written for, as strings.
ListCategoryNames ==
    {<<"p", "u", "r", "e", "_", "e", "n", "g", "l", "i", "s", "h">>,
     <<"u", "n", "c", "a", "t", "e", "g", "o", "r", "i", "z", "e", "d">>}

\* The ids of the lists written: of one, two and three digits.
ListIds == {0, 7, 12, 305}

\* Longest list of ids written to a file.
MaxListLen == 3

TokenIdListsToSave == UNION {[1..n -> ListIds] : n \in 0..MaxListLen}

FileInit ==
    /\ AnalyzerIdle
    /\ lazy_annotations \in BOOLEAN
    /\ modules = [name \in ScriptNames |-> "import"]
    /\ file \in {[pc |-> "start", category_name |-> category_name,
                  token_ids |-> token_ids, exists |-> FALSE,
                  content |-> <<>>, loaded |-> <<>>] :
                    category_name \in ListCategoryNames,
                    token_ids \in TokenIdListsToSave}
    /\ api = IdleMain
    /\ gen = IdleMain
    /\ processor = IdleProcessor

\* save_token_list(token_ids, category_name, output_dir, model_id) is called.
SaveTokenList ==
    /\ file.pc = "start"
    /\ LET written == save_token_list(file.token_ids, file.category_name)
       IN  file' = [file EXCEPT !.pc = "saved",
                                !.exists = written.exists,
                                !.content = written.content]
    /\ UNCHANGED <<lazy_annotations, modules, api, gen, processor>>
    /\ UNCHANGED analyzer_vars

\* load_japanese_token_ids_from_txt of a loaded script is called on the path
\* save_token_list was given.
LoadTokenIdsFromTxt(name) ==
    /\ file.pc = "saved"
    /\ modules[name] = "loaded"
    /\ file' = [file EXCEPT
                  !.pc = "loaded",
                  !.loaded = load_japanese_token_ids_from_txt(file.exists,
                                                              file.content)]
    /\ UNCHANGED <<lazy_annotations, modules, api, gen, processor>>
    /\ UNCHANGED analyzer_vars

FileNext ==
    \/ SaveTokenList
    \/ \E name \in ScriptNames : ImportModule(name)
    \/ \E name \in ScriptNames : LoadTokenIdsFromTxt(name)

FileSpec == FileInit /\ [][FileNext]_vars


\* ----------------------------------------------------- openai_call_jp.main

\* A float: a number, or NaN.
Float(v) == [nan |-> FALSE, v |-> v]
NaN == [nan |-> TRUE, v |-> 0]

\* a < b on floats: false when either is NaN.
lt(a, b) == ~a.nan /\ ~b.nan /\ a.v < b.v

\* min(a, b) and max(a, b) of Python: the first argument unless the second
\* is smaller (greater).
min(a, b) == IF lt(b, a) THEN b ELSE a
max(a, b) == IF lt(a, b) THEN b ELSE a

\* The clamp with the upper bound only.
clamp_upper_only(japanese_bias) == min(Float(100), japanese_bias)

\* clamped_bias = max(-100.0, min(100.0, args.japanese_bias))
clamp(japanese_bias) == max(Float(-100), min(Float(100), japanese_bias))

\* The values of --japanese_bias: below, at, within and above the range of
\* the API, zero, and NaN (argparse's type=float takes "nan").
Biases ==
    {Float(-150), Float(-100), Float(-5), Float(0), Float(5), Float(100),
     Float(150), NaN}

\* The lists of ids a file of ids holds.
FileIdLists == {<<7>>, <<0, 12>>, <<12, 305, 7>>, <<7, 7>>}

\* What --japanese_ids_file leads to: no file at all; a .txt file written by
\* save_token_list, or one with empty brackets, without brackets or with an
\* item that is no number; a .json file with a list under contains_japanese
\* or without one; a file of another extension in the .txt format.
IdsFiles ==
    {[kind |-> "missing", content |-> <<>>, json_ids |-> <<>>]}
    \cup {[kind |-> kind,
           content |-> save_token_list(ids, <<"j", "a">>).content,
           json_ids |-> <<>>] :
            kind \in {"txt", "other"}, ids \in FileIdLists}
    \cup {[kind |-> "txt", content |-> content, json_ids |-> <<>>] :
            content \in {<<"[", "]">>, <<"7">>, <<"[", "7", ",", "x", "]">>}}
    \cup {[kind |-> "json", content |-> <<>>, json_ids |-> ids] :
            ids \in FileIdLists \cup {<<>>}}

\* The ids main loads from the file: by extension, and for another extension
\* the .txt loader and, when it gives nothing, the .json loader (which
\* returns [] for a file that is no JSON).
LoadedIds(ids_file) ==
    CASE ids_file.kind = "txt" ->
            load_japanese_token_ids_from_txt(TRUE, ids_file.content)
      [] ids_file.kind = "json" -> ids_file.json_ids
      [] ids_file.kind = "other" ->
            LET from_txt ==
                    load_japanese_token_ids_from_txt(TRUE, ids_file.content)
            IN  IF from_txt # <<>> THEN from_txt ELSE ids_file.json_ids
      [] OTHER -> <<>>

\* No logit_bias dictionary: the None main starts with.
NoLogitBias == [set |-> FALSE, dict |-> <<>>]

\* logit_bias_dict as step 2 of main leaves it.
LogitBiasDict(japanese_bias, japanese_ids) ==
    IF (japanese_bias.nan \/ japanese_bias.v # 0) /\ japanese_ids # <<>>
    THEN [set |-> TRUE,
          dict |-> [key \in {str(japanese_ids[i]) : i \in DOMAIN japanese_ids}
                        |-> clamp(japanese_bias)]]
    ELSE NoLogitBias

ApiInit ==
    /\ AnalyzerIdle
    /\ lazy_annotations \in BOOLEAN
    /\ modules = [name \in ScriptNames |-> "import"]
    /\ file = IdleFile
    /\ api \in {[pc |-> "start", api_key |-> api_key, client_ok |-> client_ok,
                 japanese_bias |-> japanese_bias, ids_file |-> ids_file,
                 japanese_ids |-> <<>>, logit_bias_dict |-> NoLogitBias,
                 requests |-> <<>>] :
                    api_key \in BOOLEAN, client_ok \in BOOLEAN,
                    japanese_bias \in Biases, ids_file \in IdsFiles}
    /\ gen = IdleMain
    /\ processor = IdleProcessor

\* main up to the request parameters: it returns when there is no API key or
\* the client cannot be built; else it loads the ids when the bias is not 0
\* and prepares logit_bias_dict.
PrepareRequest ==
    /\ modules["openai_call_jp"] = "loaded"
    /\ api.pc = "start"
    /\ IF ~api.api_key \/ ~api.client_ok
       THEN api' = [api EXCEPT !.pc = "returned"]
       ELSE LET japanese_ids ==
                    IF api.japanese_bias.nan \/ api.japanese_bias.v # 0
                    THEN LoadedIds(api.ids_file)
                    ELSE <<>>
            IN  api' = [api EXCEPT
                          !.pc = "prepared",
                          !.japanese_ids = japanese_ids,
                          !.logit_bias_dict =
                              LogitBiasDict(api.japanese_bias, japanese_ids)]
    /\ UNCHANGED <<lazy_annotations, modules, file, gen, processor>>
    /\ UNCHANGED analyzer_vars

\* Step 4 of main: the request with logit_bias is sent.
SendBiased ==
    /\ api.pc = "prepared"
    /\ api.logit_bias_dict.set
    /\ api' = [api EXCEPT
                  !.pc = "biased_sent",
                  !.requests = Append(@, [biased |-> TRUE,
                                          logit_bias |->
                                              api.logit_bias_dict.dict])]
    /\ UNCHANGED <<lazy_annotations, modules, file, gen, processor>>
    /\ UNCHANGED analyzer_vars

\* Step 5 of main: the request without logit_bias is sent.
SendUnbiased ==
    /\ \/ api.pc = "biased_sent"
       \/ api.pc = "prepared" /\ ~api.logit_bias_dict.set
    /\ api' = [api EXCEPT
                  !.pc = "finished",
                  !.requests = Append(@, [biased |-> FALSE,
                                          logit_bias |-> <<>>])]
    /\ UNCHANGED <<lazy_annotations, modules, file, gen, processor>>
    /\ UNCHANGED analyzer_vars

ApiNext ==
    \/ ImportModule("openai_call_jp")
    \/ PrepareRequest
    \/ SendBiased
    \/ SendUnbiased

ApiSpec == ApiInit /\ [][ApiNext]_vars


\* ------------------------------------------------ adjust_japanese_bias.main

\* No LogitsProcessorList: the None main starts with.
NoLogitsProcessor == [set |-> FALSE, token_ids_to_bias |-> <<>>]

\* logits_processor as step 4 of main leaves it: built when the bias is
\* greater than 0 and ids were loaded.
LogitsProcessorFor(japanese_bias, japanese_ids) ==
    IF lt(Float(0), japanese_bias) /\ japanese_ids # <<>>
    THEN [set |-> TRUE,
          token_ids_to_bias |->
            [token_id \in {japanese_ids[i] : i \in DOMAIN japanese_ids}
                |-> japanese_bias]]
    ELSE NoLogitsProcessor

\* How loading the tokenizer and the model goes.
Setups == {"ok", "no_tokenizer", "no_pad_token", "no_model"}

GenInit ==
    /\ AnalyzerIdle
    /\ lazy_annotations \in BOOLEAN
    /\ modules = [name \in ScriptNames |-> "import"]
    /\ file = IdleFile
    /\ api = IdleMain
    /\ gen \in {[pc |-> "start", setup |-> setup,
                 japanese_bias |-> japanese_bias, ids_file |-> ids_file,
                 japanese_ids |-> <<>>,
                 logits_processor |-> NoLogitsProcessor,
                 generations |-> <<>>] :
                    setup \in Setups, japanese_bias \in Biases,
                    ids_file \in IdsFiles}
    /\ processor = IdleProcessor

\* main up to the generation settings: it returns when the tokenizer or the
\* model does not load or there is neither a PAD nor an EOS token; else it
\* loads the ids when the bias is greater than 0 and builds the processor.
PrepareGeneration ==
    /\ modules["adjust_japanese_bias"] = "loaded"
    /\ gen.pc = "start"
    /\ IF gen.setup # "ok"
       THEN gen' = [gen EXCEPT !.pc = "returned"]
       ELSE LET japanese_ids ==
                    IF lt(Float(0), gen.japanese_bias)
                    THEN LoadedIds(gen.ids_file)
                    ELSE <<>>
            IN  gen' = [gen EXCEPT
                          !.pc = "prepared",
                          !.japanese_ids = japanese_ids,
                          !.logits_processor =
                              LogitsProcessorFor(gen.japanese_bias,
                                                 japanese_ids)]
    /\ UNCHANGED <<lazy_annotations, modules, file, api, processor>>
    /\ UNCHANGED analyzer_vars

\* Step 6 of main: model.generate is called with the processor.
GenerateBiased ==
    /\ gen.pc = "prepared"
    /\ gen.logits_processor.set
    /\ gen' = [gen EXCEPT
                  !.pc = "biased_done",
                  !.generations =
                      Append(@, [biased |-> TRUE,
                                 token_ids_to_bias |->
                                    gen.logits_processor.token_ids_to_bias])]
    /\ UNCHANGED <<lazy_annotations, modules, file, api, processor>>
    /\ UNCHANGED analyzer_vars

\* Step 7 of main: model.generate is called without a processor.
GenerateUnbiased ==
    /\ \/ gen.pc = "biased_done"
       \/ gen.pc = "prepared" /\ ~gen.logits_processor.set
    /\ gen' = [gen EXCEPT
                  !.pc = "finished",
                  !.generations = Append(@, [biased |-> FALSE,
                                             token_ids_to_bias |-> <<>>])]
    /\ UNCHANGED <<lazy_annotations, modules, file, api, processor>>
    /\ UNCHANGED analyzer_vars

GenNext ==
    \/ ImportModule("adjust_japanese_bias")
    \/ PrepareGeneration
    \/ GenerateBiased
    \/ GenerateUnbiased

GenSpec == GenInit /\ [][GenNext]_vars


\* ------------------------------------------------ TokenBiasLogitsProcessor

\* Most columns of the scores a processor is given.
MaxScoreVocab == 2

\* Most calls of one processor.
MaxCalls == 2

\* The token ids of a mapping: below 0, within the columns, and past them.
MappingIds == (0 - 1)..MaxScoreVocab

\* The biases of a mapping.
MappingBiases == {0 - 2, 3}

\* The dictionaries a processor is built with.
Mappings ==
    UNION {[token_ids -> MappingBiases] : token_ids \in SUBSET MappingIds}

\* The scores given to the first call: a different value in every cell.
FirstScores(rows, columns) ==
    [row \in 1..rows |-> [column \in 0..(columns - 1) |-> 10 * row + column]]

\* scores[:, token_id] += bias
AddToColumn(scores, token_id, bias) ==
    [row \in DOMAIN scores |->
        [scores[row] EXCEPT ![token_id] = @ + bias]]

\* The loop of __call__ without the lower bound on token_id: a negative
\* index counts the columns from the end.
RECURSIVE AddBiasesUnchecked(_, _, _, _)
AddBiasesUnchecked(scores, token_ids_to_bias, token_ids, columns) ==
    IF token_ids = {}
    THEN scores
    ELSE LET token_id == CHOOSE id \in token_ids : TRUE
             column == IF token_id < 0 THEN columns + token_id
                       ELSE token_id
         IN  AddBiasesUnchecked(
                IF 0 <= column /\ column < columns
                THEN AddToColumn(scores, column, token_ids_to_bias[token_id])
                ELSE scores,
                token_ids_to_bias, token_ids \ {token_id}, columns)

\* The loop of __call__ over the items of token_ids_to_bias that are left.
RECURSIVE AddBiases(_, _, _, _)
AddBiases(scores, token_ids_to_bias, token_ids, columns) ==
    IF token_ids = {}
    THEN scores
    ELSE LET token_id == CHOOSE id \in token_ids : TRUE
         IN  AddBiases(
                IF 0 <= token_id /\ token_id < columns
                THEN AddToColumn(scores, token_id,
                                 token_ids_to_bias[token_id])
                ELSE scores,
                token_ids_to_bias, token_ids \ {token_id}, columns)

ProcessorInit ==
    /\ AnalyzerIdle
    /\ lazy_annotations \in BOOLEAN
    /\ modules = [name \in ScriptNames |-> "import"]
    /\ file = IdleFile
    /\ api = IdleMain
    /\ gen = IdleMain
    /\ processor \in
          {[pc |-> "start", token_ids_to_bias |-> token_ids_to_bias,
            vocab_size |-> columns, given |-> FirstScores(rows, columns),
            scores |-> FirstScores(rows, columns), calls |-> 0] :
                token_ids_to_bias \in Mappings, rows \in 1..2,
                columns \in 1..MaxScoreVocab}

\* TokenBiasLogitsProcessor(token_ids_to_bias): the dictionary is kept.
BuildProcessor ==
    /\ modules["adjust_japanese_bias"] = "loaded"
    /\ processor.pc = "start"
    /\ processor' = [processor EXCEPT !.pc = "built"]
    /\ UNCHANGED <<lazy_annotations, modules, file, api, gen>>
    /\ UNCHANGED analyzer_vars

\* __call__(input_ids, scores): the scores of the call before are given, or
\* the first scores.
CallProcessor ==
    /\ processor.pc \in {"built", "called"}
    /\ processor.calls < MaxCalls
    /\ processor' =
          [processor EXCEPT
              !.pc = "called",
              !.calls = @ + 1,
              !.given = processor.scores,
              !.scores = AddBiases(processor.scores,
                                   processor.token_ids_to_bias,
                                   DOMAIN processor.token_ids_to_bias,
                                   processor.vocab_size)]
    /\ UNCHANGED <<lazy_annotations, modules, file, api, gen>>
    /\ UNCHANGED analyzer_vars

ProcessorNext ==
    \/ ImportModule("adjust_japanese_bias")
    \/ BuildProcessor
    \/ CallProcessor

ProcessorSpec == ProcessorInit /\ [][ProcessorNext]_vars

\* ------------------------------------------------------------- properties

\* A result dictionary has been returned.
Returned == pc = "done"

\* The ids listed under a category of the returned result.
Bucket(name) ==
    {result.token_ids[name][i] : i \in DOMAIN result.token_ids[name]}

\* The categories of the returned result that list the id.
BucketsOf(token_id) ==
    {name \in DOMAIN result.token_ids : token_id \in Bucket(name)}

\* The text has a character of the class.
HasCharIn(text, class) == \E i \in DOMAIN text : text[i] \in class

\* Every character of the text is of the class.
AllCharsIn(text, class) == \A i \in DOMAIN text : text[i] \in class

\* The analyzed ids whose decode gave a non-empty text.
NonEmptyIds ==
    {token_id \in analyzed_token_ids :
        decoded[token_id].status = "ok" /\ decoded[token_id].text # <<>>}

\* The analyzed ids whose decoded text has a half-width Katakana character:
\* their processing ends in the except clause after decode has returned.
HalfWidthIds ==
    {token_id \in NonEmptyIds : HasCharIn(decoded[token_id].text, KATAKANA_HW)}

FacetNames ==
    {"contains_hiragana", "contains_katakana_full", "contains_katakana_half",
     "contains_kanji", "contains_jp_punct_symbol", "contains_fullwidth_ascii"}

FacetClass(name) ==
    CASE name = "contains_hiragana" -> HIRAGANA
      [] name = "contains_katakana_full" -> KATAKANA
      [] name = "contains_katakana_half" -> KATAKANA_HW
      [] name = "contains_kanji" -> KANJI_COMMON \cup KANJI_EXT_A
      [] name = "contains_jp_punct_symbol" -> JP_PUNCT \cup JP_SYMBOLS_ETC
      [] name = "contains_fullwidth_ascii" -> JP_FULLWIDTH_ASCII_PRINTABLE

ScriptChars == HIRAGANA \cup KATAKANA \cup KATAKANA_HW
               \cup KANJI_COMMON \cup KANJI_EXT_A

\* C1: in a returned result, an analyzed id with non-empty decoded text is in
\* a facet bucket exactly when the text has a character of the facet's class
\* (so a token with a half-width Katakana character is in
\* contains_katakana_half).
C1_FacetBuckets ==
    Returned =>
        \A token_id \in NonEmptyIds : \A name \in FacetNames :
            token_id \in Bucket(name)
                <=> HasCharIn(decoded[token_id].text, FacetClass(name))

\* C2: in a returned result, the buckets that list an analyzed id whose decode
\* succeeded are exactly the categories the reference rules of the test suite
\* compute from its decoded text.
C2_MatchesReference ==
    Returned =>
        \A token_id \in analyzed_token_ids :
            decoded[token_id].status = "ok" =>
                BucketsOf(token_id)
                    = calculate_expected_categories_util(decoded[token_id].text)

\* C3: in every returned result pure_japanese_script and the six facet buckets
\* are subsets of contains_japanese, and pure_english is a subset of
\* contains_basic_english, also when tokens raised while being processed.
C3_Subsets ==
    Returned =>
        /\ Bucket("pure_japanese_script") \subseteq Bucket("contains_japanese")
        /\ \A name \in FacetNames :
              Bucket(name) \subseteq Bucket("contains_japanese")
        /\ Bucket("pure_english") \subseteq Bucket("contains_basic_english")

\* A result in which one token raised after it was put in contains_hiragana,
\* and another token is in pure_english.
C3_Witness ==
    /\ Returned
    /\ error_count = 1
    /\ HalfWidthIds \cap Bucket("contains_hiragana") # {}
    /\ Bucket("pure_english") # {}

\* C4: in every returned result the pairs (pure_japanese_script, pure_english),
\* (pure_japanese_script, special_char_pattern), (pure_english,
\* contains_japanese), (pure_english, special_char_pattern),
\* (special_char_pattern, contains_japanese) and (special_char_pattern,
\* contains_basic_english) share no token id.
C4_Disjoint ==
    Returned =>
        /\ Bucket("pure_japanese_script") \cap Bucket("pure_english") = {}
        /\ Bucket("pure_japanese_script") \cap Bucket("special_char_pattern")
              = {}
        /\ Bucket("pure_english") \cap Bucket("contains_japanese") = {}
        /\ Bucket("pure_english") \cap Bucket("special_char_pattern") = {}
        /\ Bucket("special_char_pattern") \cap Bucket("contains_japanese") = {}
        /\ Bucket("special_char_pattern") \cap Bucket("contains_basic_english")
              = {}

\* A result with a token that mixes basic English and Japanese-related
\* characters, and a token in special_char_pattern.
C4_Witness ==
    /\ Returned
    /\ Bucket("contains_basic_english") \cap Bucket("contains_japanese") # {}
    /\ Bucket("special_char_pattern") # {}

\* C5: in every returned result uncategorized shares no token id with any of
\* the other 12 buckets, also after a token raised part-way through its
\* category assignment.
C5_UncategorizedDisjoint ==
    Returned =>
        \A name \in DOMAIN result.token_ids \ {"uncategorized"} :
            Bucket("uncategorized") \cap Bucket(name) = {}

\* A result in which a token raised after it was put in contains_japanese,
\* and another token is uncategorized.
C5_Witness ==
    /\ Returned
    /\ error_count > 0
    /\ HalfWidthIds \cap Bucket("contains_japanese") # {}
    /\ Bucket("uncategorized") # {}

\* C6: in every returned result num_tokens_analyzed is the number of distinct
\* ids in the 12 non-residual buckets plus the number of ids in uncategorized.
C6_AnalyzedCount ==
    Returned =>
        result.analysis_details.num_tokens_analyzed
            = Cardinality(UNION {Bucket(name) :
                    name \in DOMAIN result.token_ids \ {"uncategorized"}})
              + Len(result.token_ids["uncategorized"])

\* A result with a categorized token, an uncategorized token and an error.
C6_Witness ==
    /\ Returned
    /\ result.analysis_details.num_tokens_analyzed = 2
    /\ result.analysis_details.num_errors = 1
    /\ Len(result.token_ids["uncategorized"]) = 1

\* C7: in every returned result, from the loop or from the early return,
\* statistics[c] is the length of token_ids[c] for each category c, and
\* token_ids[c] lists no id twice.
C7_StatisticsMatch ==
    Returned =>
        /\ DOMAIN result.statistics = DOMAIN result.token_ids
        /\ \A name \in DOMAIN result.token_ids :
              /\ result.statistics[name] = Len(result.token_ids[name])
              /\ \A i, j \in DOMAIN result.token_ids[name] :
                    result.token_ids[name][i] = result.token_ids[name][j]
                        => i = j

\* A result of the loop with two ids in one bucket and one id in another.
C7_Witness ==
    /\ Returned
    /\ result.statistics["contains_japanese"] = 2
    /\ result.statistics["contains_hiragana"] = 1

\* C8: every returned result has exactly the 13 category keys in statistics
\* and in token_ids, whatever tokens were classified.
C8_ExactKeys ==
    Returned =>
        LET keys == {"contains_japanese", "pure_japanese_script",
                     "pure_english", "contains_hiragana",
                     "contains_katakana_full", "contains_katakana_half",
                     "contains_kanji", "contains_jp_punct_symbol",
                     "contains_fullwidth_ascii", "contains_basic_english",
                     "contains_digit", "special_char_pattern", "uncategorized"}
        IN  /\ DOMAIN result.statistics = keys
            /\ DOMAIN result.token_ids = keys

\* A result after a token with a half-width Katakana character was
\* classified, with the half-width bucket empty.
C8_Witness ==
    /\ Returned
    /\ HalfWidthIds # {}
    /\ result.statistics["contains_katakana_half"] = 0

\* C9: in a returned result, an analyzed id with non-empty decoded text is in
\* pure_japanese_script exactly when every character of the text is Hiragana,
\* full-width Katakana, half-width Katakana or Kanji.
C9_PureJapaneseScript ==
    Returned =>
        \A token_id \in NonEmptyIds :
            token_id \in Bucket("pure_japanese_script")
                <=> AllCharsIn(decoded[token_id].text, ScriptChars)

\* C10: in a returned result, an analyzed id with non-empty decoded text is in
\* contains_basic_english exactly when the text has a character in A-Z or
\* a-z, and in pure_english exactly when every character is in A-Z or a-z.
C10_English ==
    Returned =>
        \A token_id \in NonEmptyIds :
            /\ token_id \in Bucket("contains_basic_english")
                  <=> HasCharIn(decoded[token_id].text, (65..90) \cup (97..122))
            /\ token_id \in Bucket("pure_english")
                  <=> AllCharsIn(decoded[token_id].text,
                                 (65..90) \cup (97..122))

\* The analyzed ids whose decode raised.
FailedIds ==
    {token_id \in analyzed_token_ids : decoded[token_id].status = "error"}

\* The analyzed ids whose decode gave the empty string.
EmptyIds ==
    {token_id \in analyzed_token_ids :
        decoded[token_id].status = "ok" /\ decoded[token_id].text = <<>>}

PositiveNames == DOMAIN result.token_ids \ {"uncategorized"}

C12_SpecialPattern ==
    Returned =>
        \A token_id \in NonEmptyIds :
            LET text == decoded[token_id].text
            IN  /\ token_id \in Bucket("special_char_pattern")
                        <=> is_special_char_pattern(text)
                /\ is_special_char_pattern(text) =>
                        /\ ~is_related_to_jp(TokenFlags(text))
                        /\ ~TokenFlags(text).has_basic_english
                        /\ ~TokenFlags(text).has_digit

\* C12 witness: a returned result lists one token under special_char_pattern
\* and leaves out another that has no Japanese-related character, no basic
\* English letter and no digit.
C12_Witness ==
    /\ Returned
    /\ \E token_id \in NonEmptyIds :
            token_id \in Bucket("special_char_pattern")
    /\ \E token_id \in NonEmptyIds :
            LET flags == TokenFlags(decoded[token_id].text)
            IN  /\ ~is_related_to_jp(flags)
                /\ ~flags.has_basic_english
                /\ ~flags.has_digit
                /\ token_id \notin Bucket("special_char_pattern")

\* C13: once the tokenizer has loaded, no exception leaves
\* analyze_token_categories, whichever decodes raise.
C13_NeverAborts == pc # "raised"

\* C14: in a returned result, every id whose decode raised is counted once
\* in num_errors (together with the ids that raised after decoding), is
\* counted in num_tokens_analyzed, is in uncategorized and in no other bucket.
C14_DecodeErrors ==
    Returned =>
        /\ result.analysis_details.num_errors
              = Cardinality(FailedIds) + Cardinality(HalfWidthIds)
        /\ result.analysis_details.num_tokens_analyzed
              = Cardinality(analyzed_token_ids)
        /\ \A token_id \in FailedIds : BucketsOf(token_id) = {"uncategorized"}

\* C14 witness: a result is returned for a run in which a decode raised.
C14_Witness ==
    /\ Returned
    /\ FailedIds # {}
    /\ result.analysis_details.num_errors = Cardinality(FailedIds)

\* C15: num_errors of a returned result is the number of analyzed ids whose
\* decode raised.
C15_OnlyDecodeErrors ==
    Returned => result.analysis_details.num_errors = Cardinality(FailedIds)

C18_PureExcludesPunct ==
    Returned =>
        /\ \A token_id \in NonEmptyIds :
              \A i \in DOMAIN decoded[token_id].text :
                  decoded[token_id].text[i]
                      \in JP_PUNCT \cup JP_SYMBOLS_ETC
                          \cup JP_FULLWIDTH_ASCII_PRINTABLE
                  => ~is_pure_japanese_script_char(decoded[token_id].text[i])
        /\ Bucket("pure_japanese_script")
              \cap Bucket("contains_jp_punct_symbol") = {}
        /\ Bucket("pure_japanese_script")
              \cap Bucket("contains_fullwidth_ascii") = {}

\* C19: in a returned result, an analyzed id with non-empty decoded text is in
\* contains_japanese exactly when some character of the text satisfies
\* is_japanese_related_char, and on every character of the text the flags the
\* loop sets agree with is_japanese_related_char.
C19_ContainsJapanese ==
    Returned =>
        \A token_id \in NonEmptyIds :
            LET text == decoded[token_id].text
            IN  /\ token_id \in Bucket("contains_japanese")
                        <=> \E i \in DOMAIN text :
                                is_japanese_related_char(text[i])
                /\ \A i \in DOMAIN text :
                        is_japanese_related_char(text[i])
                            <=> is_related_to_jp(
                                    CheckChar(InitialFlags, text[i]))

\* C19 witness: a returned result lists under contains_japanese a token whose
\* only Japanese-related character is half-width Katakana, next to a token
\* with no Japanese-related character.
C19_Witness ==
    /\ Returned
    /\ \E token_id \in HalfWidthIds :
            /\ token_id \in Bucket("contains_japanese")
            /\ \A i \in DOMAIN decoded[token_id].text :
                    is_japanese_related_char(decoded[token_id].text[i])
                        => decoded[token_id].text[i] \in KATAKANA_HW
    /\ \E token_id \in NonEmptyIds :
            token_id \notin Bucket("contains_japanese")

\* C17: when loading the tokenizer fails, analyze_token_categories returns no
\* result, and run_full_analysis writes no JSON file, writes no token-list
\* file and prints no summary.
C17_LoadFailure ==
    ~load_ok =>
        /\ result = NoResult
        /\ outputs = {}
        /\ pc \in {"start", "load_failed", "not_completed"}

\* C17 witness: run_full_analysis has finished after a failed load.
C17_Witness == pc = "not_completed" /\ ~load_ok

\* The characters that keep a token from being a pattern of symbols only.
NonSymbolChars ==
    AlnumCodePoints \cup SpaceCodePoints \cup ENGLISH_BASIC
    \cup HIRAGANA \cup KATAKANA \cup KATAKANA_HW \cup KANJI_COMMON
    \cup KANJI_EXT_A \cup JP_PUNCT \cup JP_SYMBOLS_ETC
    \cup JP_FULLWIDTH_ASCII_PRINTABLE

ClassifiedAlone(text) ==
    LET added == AddAll(EmptyCategories, AssignedKeys(text), 0).categories
        names == {name \in DOMAIN added : 0 \in added[name]}
    IN  IF names = {} THEN {"uncategorized"} ELSE names

\* C21: in a returned result, the buckets of an analyzed id with non-empty
\* decoded text are those of the text classified on its own, whatever was
\* processed before, so two ids with the same text are in the same buckets.
C21_PureFunction ==
    Returned =>
        /\ \A token_id \in NonEmptyIds :
              BucketsOf(token_id) = ClassifiedAlone(decoded[token_id].text)
        /\ \A a \in NonEmptyIds, b \in NonEmptyIds :
              decoded[a].text = decoded[b].text => BucketsOf(a) = BucketsOf(b)

\* C21 witness: a returned result for two ids that decode to the same text,
\* a text that is put in more than one bucket.
C21_Witness ==
    /\ Returned
    /\ \E a \in NonEmptyIds, b \in NonEmptyIds :
          /\ a # b
          /\ decoded[a].text = decoded[b].text
          /\ Cardinality(BucketsOf(a)) > 1

\* The ids listed anywhere in the returned result.
ListedIds == UNION {Bucket(name) : name \in DOMAIN result.token_ids}

\* The ids of excluded_special_ids of the returned result.
ExcludedSpecialIds ==
    {result.analysis_details.excluded_special_ids[i] :
        i \in DOMAIN result.analysis_details.excluded_special_ids}

\* C22: every id listed in a returned result is an analyzed id: it is within
\* min_token_id_analyzed and max_token_id_analyzed, at least 0 and below
\* vocab_size, at least min_token_id and not an excluded special id.
C22_OnlyAnalyzedIds ==
    Returned =>
        \A token_id \in ListedIds :
            /\ token_id \in analyzed_token_ids
            /\ result.analysis_details.min_token_id_analyzed <= token_id
            /\ token_id <= result.analysis_details.max_token_id_analyzed
            /\ 0 <= token_id
            /\ token_id <= vocab_size - 1
            /\ min_token_id <= token_id
            /\ token_id \notin special_ids
            /\ token_id \notin ExcludedSpecialIds

\* C22 witness: a returned result lists an id and leaves out an id below
\* min_token_id that is not special.
C22_Witness ==
    /\ Returned
    /\ ListedIds # {}
    /\ \E token_id \in 0..(vocab_size - 1) :
          /\ token_id < min_token_id
          /\ token_id \notin special_ids
          /\ token_id \notin ListedIds

\* A list of ids is in strictly ascending order.
StrictlyAscending(ids) ==
    \A i \in DOMAIN ids, j \in DOMAIN ids : i < j => ids[i] < ids[j]

\* The buckets the outcome of an analyzed id's processing puts it in.
OutcomeBuckets(token_id) ==
    IF token_id \in NonEmptyIds
    THEN ClassifiedAlone(decoded[token_id].text)
    ELSE {"uncategorized"}

\* C24: every list of a returned result is strictly ascending; the lists, the
\* statistics and num_errors are determined by what each analyzed id decoded
\* to, whatever the order of processing; and no order ends without a result
\* while an id is left whose processing first would have let the run go on.
C24_OrderIndependent ==
    /\ Returned =>
          /\ \A name \in DOMAIN result.token_ids :
                /\ StrictlyAscending(result.token_ids[name])
                /\ Bucket(name) = {token_id \in analyzed_token_ids :
                                      name \in OutcomeBuckets(token_id)}
                /\ result.statistics[name] = Cardinality(Bucket(name))
          /\ result.analysis_details.num_errors
                = Cardinality(FailedIds \cup HalfWidthIds)
    /\ pc = "raised" => pending = {}

\* C25: in a returned result, every id whose processing incremented
\* num_errors is in uncategorized and in no other bucket.
C25_NoPartialAssignment ==
    Returned =>
        \A token_id \in FailedIds \cup HalfWidthIds :
            BucketsOf(token_id) = {"uncategorized"}

\* The full-width digits.
FULLWIDTH_DIGITS == 65296..65305

\* C27: in a returned result, a token made only of full-width digits is in
\* contains_japanese and contains_fullwidth_ascii and in no other bucket, and
\* every token in contains_digit has a character in '0'..'9'.
C27_AsciiDigitsOnly ==
    Returned =>
        \A token_id \in NonEmptyIds :
            LET text == decoded[token_id].text
            IN  /\ AllCharsIn(text, FULLWIDTH_DIGITS) =>
                      BucketsOf(token_id)
                        = {"contains_japanese", "contains_fullwidth_ascii"}
                /\ token_id \in Bucket("contains_digit") =>
                      HasCharIn(text, 48..57)

\* C27 witness: a returned result for a token made only of full-width digits
\* and a token with a full-width digit next to an ASCII digit.
C27_Witness ==
    /\ Returned
    /\ \E token_id \in NonEmptyIds :
          AllCharsIn(decoded[token_id].text, FULLWIDTH_DIGITS)
    /\ \E token_id \in NonEmptyIds :
          /\ HasCharIn(decoded[token_id].text, FULLWIDTH_DIGITS)
          /\ token_id \in Bucket("contains_digit")

\* C26: at most 20 per-token warnings are logged; num_errors of a returned
\* result is the number of failures counted, past the cap too; and a run that
\* has ended after a token failed has logged the final warning with the
\* total.
C26_LogCap ==
    /\ warnings <= LogCap
    /\ Returned =>
          /\ result.analysis_details.num_errors = error_count
          /\ error_count <= LogCap => warnings = error_count
          /\ error_count > LogCap => warnings = LogCap
    /\ (pc \in {"done", "raised"} /\ error_count > 0) =>
          totals_logged = <<error_count>>

\* C28: a file written by save_token_list for a non-empty list of ids is
\* read back by load_japanese_token_ids_from_txt as the same ids in the same
\* order; for the empty list no file is written.
C28_RoundTrip ==
    /\ file.pc \in {"saved", "loaded"} =>
          (file.exists <=> file.token_ids # <<>>)
    /\ (file.pc = "loaded" /\ file.token_ids # <<>>) =>
          file.loaded = file.token_ids

\* C28 witness: a list of three ids, of two and three digits among them, has
\* been written and read back.
C28_Witness ==
    /\ file.pc = "loaded"
    /\ Len(file.token_ids) = 3
    /\ Len(file.loaded) = 3
    /\ \E i \in DOMAIN file.token_ids : file.token_ids[i] >= 100
    /\ \E i \in DOMAIN file.token_ids : file.token_ids[i] < 10

\* The requests with logit_bias that main has sent.
BiasedRequests ==
    {api.requests[i] : i \in {j \in DOMAIN api.requests :
                                api.requests[j].biased}}

\* C23: every value of a logit_bias mapping sent to the API is a number
\* within -100 and 100, the requested bias brought into that range, and the
\* keys are the decimal strings of the loaded ids, each id with its key.
C23_ClampedBias ==
    \A request \in BiasedRequests :
        /\ \A key \in DOMAIN request.logit_bias :
              LET value == request.logit_bias[key]
                  requested == api.japanese_bias
              IN  /\ ~value.nan
                  /\ 0 - 100 <= value.v
                  /\ value.v <= 100
                  /\ ~requested.nan =>
                        value.v = IF requested.v < 0 - 100 THEN 0 - 100
                                  ELSE IF requested.v > 100 THEN 100
                                  ELSE requested.v
                  /\ ~int(key).raised
                  /\ str(int(key).value) = key
        /\ {int(key).value : key \in DOMAIN request.logit_bias}
              = {api.japanese_ids[i] : i \in DOMAIN api.japanese_ids}

\* C23 witness: a request with logit_bias has been sent for a requested bias
\* below the range and three loaded ids.
C23_Witness ==
    /\ BiasedRequests # {}
    /\ ~api.japanese_bias.nan
    /\ api.japanese_bias.v < 0 - 100
    /\ Len(api.japanese_ids) = 3

\* The ids the file of ids of the run of adjust_japanese_bias.main holds.
GenFileIds ==
    {LoadedIds(gen.ids_file)[i] : i \in DOMAIN LoadedIds(gen.ids_file)}

\* C29: when main of adjust_japanese_bias has run to its end with a bias
\* that is not 0 and a file that holds ids, it has generated with a processor
\* that carries the bias for every id of the file.
C29_NonZeroBias ==
    (/\ gen.pc = "finished"
     /\ gen.japanese_bias # Float(0)
     /\ GenFileIds # {}) =>
        \E i \in DOMAIN gen.generations :
            /\ gen.generations[i].biased
            /\ gen.generations[i].token_ids_to_bias
                  = [token_id \in GenFileIds |-> gen.japanese_bias]

\* C30: a call of the processor leaves in every row and every column the
\* score it was given, plus the bias of the column's id when the mapping has
\* that id; the ids of the mapping that are no column change nothing.
C30_FrameEffect ==
    processor.pc = "called" =>
        /\ DOMAIN processor.scores = DOMAIN processor.given
        /\ \A row \in DOMAIN processor.scores :
              /\ DOMAIN processor.scores[row] = 0..(processor.vocab_size - 1)
              /\ \A column \in DOMAIN processor.scores[row] :
                    processor.scores[row][column]
                      = processor.given[row][column]
                        + (IF column \in DOMAIN processor.token_ids_to_bias
                           THEN processor.token_ids_to_bias[column]
                           ELSE 0)

\* C30 witness: a processor has been called twice on two rows, and its
\* mapping has a column's id, an id below 0 and an id past the columns and
\* lacks the id of another column.
C30_Witness ==
    /\ processor.pc = "called"
    /\ processor.calls = 2
    /\ Cardinality(DOMAIN processor.scores) = 2
    /\ \E column \in 0..(processor.vocab_size - 1) :
          column \in DOMAIN processor.token_ids_to_bias
    /\ \E column \in 0..(processor.vocab_size - 1) :
          column \notin DOMAIN processor.token_ids_to_bias
    /\ \E token_id \in DOMAIN processor.token_ids_to_bias : token_id < 0
    /\ \E token_id \in DOMAIN processor.token_ids_to_bias :
          token_id >= processor.vocab_size

=============================================================================
